---- MODULE Spec2Model ----
(***************************************************************************)
(* Model of Core/Src/button.c (button_lib): the debounce filter and the    *)
(* press classifier of Button_IRQ_Handler, and the three polling           *)
(* accessors Button_Pressed, Button_Long_Pressed, Button_Double_Pressed.   *)
(*                                                                         *)
(* HAL_GetTick() is the variable tick, HAL_GPIO_ReadPin(button) is         *)
(* pin[button].  One handler or accessor call is one action: it runs       *)
(* within one millisecond tick.  The diagnostic globals (debug_count,      *)
(* button_has_changed, is_button_pressed, is_state_changed) are written    *)
(* and never read by the library, and are left out.                        *)
(***************************************************************************)
EXTENDS Integers, Sequences, FiniteSets, TLC

(* ------------------------------------------------------------------ *)
(* Program constants (button.h part of button.c).                       *)
(* ------------------------------------------------------------------ *)
DEBOUNCE_DURATION == 200
LONG_PRESS_DURATION == 1000
DOUBLE_PRESS_WINDOW == 500
GPIO_PIN_RESET == 0
GPIO_PIN_SET == 1

(* ------------------------------------------------------------------ *)
(* Bounds of the model.                                                 *)
(* ------------------------------------------------------------------ *)
\* Width of the tick counter in the model (uint32_t in the source).
TickBits == 12
\* Ticks that elapse in a run of the one-button specification.
MaxTick == 1400
\* Ticks that elapse in a run of the two-button specification.
MaxTickTwo == 400
\* Ticks that elapse in a run of the wrapping specification.
MaxTickWrap == 900
\* The wrapping specification starts this many ticks before the wrap.
WrapLead == 300
\* Accepted transitions the history keeps per button.
HistLen == 4
\* Ticks that elapse in a run of the polling specification.
MaxTickPoll == 800
\* Ticks that elapse in a run of the triple-press specification.
MaxTickTriple == 1200
\* Releases whose Button_Double_Pressed answer the history keeps.
MaxAnswers == 3
\* Ticks that elapse in a run of the preemption specification.
MaxTickPre == 1000
\* Pin edges in a run of the preemption specification.
MaxEdges == 3

TickMod == 2 ^ TickBits

Buttons == {"A", "B"}
Levels == {GPIO_PIN_RESET, GPIO_PIN_SET}

\* The instants at which the environment lets time be observed: every whole
\* debounce period, each threshold of the classifier and the tick before it.
Offsets(max) ==
    {o \in 0..max : \/ o % DEBOUNCE_DURATION = 0
                    \/ o \in {DEBOUNCE_DURATION - 1,
                              DOUBLE_PRESS_WINDOW - 1, DOUBLE_PRESS_WINDOW,
                              LONG_PRESS_DURATION - 1, LONG_PRESS_DURATION}}
OffsetsOne == Offsets(MaxTick)
OffsetsTwo == Offsets(MaxTickTwo)
OffsetsWrap == Offsets(MaxTickWrap)
OffsetsPoll == Offsets(MaxTickPoll)
OffsetsTriple == Offsets(MaxTickTriple)
OffsetsPre == Offsets(MaxTickPre)

(* ------------------------------------------------------------------ *)
(* uint32_t arithmetic, at the model's width.                           *)
(* ------------------------------------------------------------------ *)
U32Add(a, b) == (a + b) % TickMod
U32Sub(a, b) == (a - b) % TickMod

(* ------------------------------------------------------------------ *)
(* Button_Init and the handler's function-scoped statics.               *)
(* ------------------------------------------------------------------ *)
Button_Init ==
    [_state |-> GPIO_PIN_SET, _has_changed |-> 0, _press_start_time |-> 0,
     _long_press_event |-> 0, _double_press_event |-> 0]

StaticsInit ==
    [ignore_until |-> 0, press_start_time |-> 0, last_press_time |-> 0]

(* ------------------------------------------------------------------ *)
(* Button_IRQ_Handler.                                                  *)
(* ------------------------------------------------------------------ *)
\* Mutant: the window is taken to end one tick before ignore_until.
InWindowShort(st, now) == st.ignore_until > now + 1

\* Mutant: the tick ignore_until itself still counts as inside the window.
InWindowInclusive(st, now) == st.ignore_until >= now

\* if (ignore_until > HAL_GetTick())
InWindow(st, now) == st.ignore_until > now

\* Mutant: the window closes one tick early.
WindowEndShort(now) == U32Add(now, DEBOUNCE_DURATION - 1)

\* Mutant: the window stays closed one tick longer.
WindowEndLong(now) == U32Add(now, DEBOUNCE_DURATION + 1)

\* ignore_until = HAL_GetTick() + DEBOUNCE_DURATION
WindowEnd(now) == U32Add(now, DEBOUNCE_DURATION)

\* Mutant: a press held exactly LONG_PRESS_DURATION is not long.
IsLongPressStrict(press_duration) == press_duration > LONG_PRESS_DURATION

\* if (press_duration >= LONG_PRESS_DURATION)
IsLongPress(press_duration) == press_duration >= LONG_PRESS_DURATION

\* Mutant: a press of exactly DOUBLE_PRESS_WINDOW still counts as short.
IsShortPressInclusive(press_duration) == press_duration <= DOUBLE_PRESS_WINDOW

\* if (press_duration < DOUBLE_PRESS_WINDOW)
IsShortPress(press_duration) == press_duration < DOUBLE_PRESS_WINDOW

\* uint32_t time_since_last_press = press_start_time - last_press_time
TimeSinceLastPress(st) == U32Sub(st.press_start_time, st.last_press_time)

\* Mutant: a second press starting exactly DOUBLE_PRESS_WINDOW later pairs.
IsDoublePressInclusive(time_since_last_press) ==
    time_since_last_press <= DOUBLE_PRESS_WINDOW

\* if (time_since_last_press < DOUBLE_PRESS_WINDOW)
IsDoublePress(time_since_last_press) == time_since_last_press < DOUBLE_PRESS_WINDOW

\* Mutant: a press that completed a double press is not recorded as the
\* last press (the assignment sits in the else of the double-press test).
OnReleaseConsume(bt, st, now) ==
    LET press_duration == U32Sub(now, st.press_start_time)
        long  == IsLongPress(press_duration)
        bt1   == IF long THEN [bt EXCEPT !._long_press_event = 1] ELSE bt
        st1   == IF long THEN [st EXCEPT !.press_start_time = 0] ELSE st
        short == IsShortPress(press_duration)
        dbl   == short /\ IsDoublePress(TimeSinceLastPress(st1))
        bt2   == IF dbl THEN [bt1 EXCEPT !._double_press_event = 1] ELSE bt1
        st2   == IF short /\ ~dbl
                 THEN [st1 EXCEPT !.last_press_time = st1.press_start_time]
                 ELSE st1
    IN  [bt |-> bt2, st |-> st2]

\* The "Button released" branch.
OnRelease(bt, st, now) ==
    LET press_duration == U32Sub(now, st.press_start_time)
        long  == IsLongPress(press_duration)
        bt1   == IF long THEN [bt EXCEPT !._long_press_event = 1] ELSE bt
        st1   == IF long THEN [st EXCEPT !.press_start_time = 0] ELSE st
        short == IsShortPress(press_duration)
        dbl   == short /\ IsDoublePress(TimeSinceLastPress(st1))
        bt2   == IF dbl THEN [bt1 EXCEPT !._double_press_event = 1] ELSE bt1
        st2   == IF short THEN [st1 EXCEPT !.last_press_time = st1.press_start_time]
                 ELSE st1
    IN  [bt |-> bt2, st |-> st2]

\* Mutant: the press edge raises the double-press flag.
OnPressFlags(bt, st, now) ==
    [bt |-> [bt EXCEPT !._double_press_event = 1],
     st |-> [st EXCEPT !.press_start_time = now]]

\* The "Button pressed" branch.
OnPress(bt, st, now) ==
    [bt |-> bt, st |-> [st EXCEPT !.press_start_time = now]]

\* Mutant: the accepted change does not raise _has_changed.
AcceptSilent(bt, st, now, current_state) ==
    [bt |-> [bt EXCEPT !._state = current_state],
     st |-> [st EXCEPT !.ignore_until = WindowEnd(now)]]

\* The accepted state change: _state, _has_changed, ignore_until.
Accept(bt, st, now, current_state) ==
    [bt |-> [bt EXCEPT !._state = current_state, !._has_changed = 1],
     st |-> [st EXCEPT !.ignore_until = WindowEnd(now)]]

\* Mutant: the handler trusts the interrupt edge: every call is a transition
\* to the other level, with no window and no comparison with the pin.
Button_IRQ_Handler_Edge(bt, st, now, current_state) ==
    LET a == Accept(bt, st, now, IF bt._state = GPIO_PIN_SET THEN GPIO_PIN_RESET
                                 ELSE GPIO_PIN_SET)
    IN  IF a.bt._state = GPIO_PIN_SET
        THEN OnRelease(a.bt, a.st, now)
        ELSE OnPress(a.bt, a.st, now)

Button_IRQ_Handler(bt, st, now, current_state) ==
    IF InWindow(st, now) THEN [bt |-> bt, st |-> st]
    ELSE IF current_state # bt._state
         THEN LET a == Accept(bt, st, now, current_state)
              IN  IF current_state = GPIO_PIN_SET
                  THEN OnRelease(a.bt, a.st, now)
                  ELSE OnPress(a.bt, a.st, now)
         ELSE [bt |-> bt, st |-> st]

(* ------------------------------------------------------------------ *)
(* The accessors.  Each returns the button and statics it leaves, the   *)
(* button as it was right after the internal Button_IRQ_Handler call    *)
(* (mid), and its return value.                                         *)
(* ------------------------------------------------------------------ *)
Button_Read(level) == level

\* Mutant: the flag is read and not cleared.
Button_Has_Changed_Keep(bt) ==
    IF bt._has_changed # 0 THEN [bt |-> bt, ret |-> 1] ELSE [bt |-> bt, ret |-> 0]

Button_Has_Changed(bt) ==
    IF bt._has_changed # 0
    THEN [bt |-> [bt EXCEPT !._has_changed = 0], ret |-> 1]
    ELSE [bt |-> bt, ret |-> 0]

\* level is the pin as the internal update reads it, level2 as Button_Read
\* reads it afterwards.
Button_Pressed(bt, st, now, level, level2) ==
    LET u  == Button_IRQ_Handler(bt, st, now, level)
        hc == Button_Has_Changed(u.bt)
        is_button_pressed == (Button_Read(level2) = GPIO_PIN_RESET)
    IN  [bt |-> hc.bt, st |-> u.st, mid |-> u.bt,
         ret |-> IF hc.ret # 0 /\ is_button_pressed THEN 1 ELSE 0]

Button_Long_Pressed(bt, st, now, level) ==
    LET u == Button_IRQ_Handler(bt, st, now, level)
    IN  IF u.bt._long_press_event # 0
        THEN [bt |-> [u.bt EXCEPT !._long_press_event = 0], st |-> u.st,
              mid |-> u.bt, ret |-> 1]
        ELSE [bt |-> u.bt, st |-> u.st, mid |-> u.bt, ret |-> 0]

\* Mutant: the double-press accessor also clears the long-press flag.
Button_Double_Pressed_Both(bt, st, now, level) ==
    LET u == Button_IRQ_Handler(bt, st, now, level)
    IN  IF u.bt._double_press_event # 0
        THEN [bt |-> [u.bt EXCEPT !._double_press_event = 0,
                                  !._long_press_event = 0],
              st |-> u.st, mid |-> u.bt, ret |-> 1]
        ELSE [bt |-> u.bt, st |-> u.st, mid |-> u.bt, ret |-> 0]

Button_Double_Pressed(bt, st, now, level) ==
    LET u == Button_IRQ_Handler(bt, st, now, level)
    IN  IF u.bt._double_press_event # 0
        THEN [bt |-> [u.bt EXCEPT !._double_press_event = 0], st |-> u.st,
              mid |-> u.bt, ret |-> 1]
        ELSE [bt |-> u.bt, st |-> u.st, mid |-> u.bt, ret |-> 0]

\* One call of operation op on a button: what it leaves and returns.
\* A direct Button_IRQ_Handler call returns nothing (ret 0).
Call(op, bt, st, now, level, level2) ==
    CASE op = "irq"     -> LET u == Button_IRQ_Handler(bt, st, now, level)
                           IN  [bt |-> u.bt, st |-> u.st, mid |-> u.bt, ret |-> 0]
      [] op = "pressed" -> Button_Pressed(bt, st, now, level, level2)
      [] op = "long"    -> Button_Long_Pressed(bt, st, now, level)
      [] op = "double"  -> Button_Double_Pressed(bt, st, now, level)

(* ------------------------------------------------------------------ *)
(* State.                                                               *)
(* ------------------------------------------------------------------ *)
VARIABLES
    tick,      \* HAL_GetTick()
    pin,       \* pin[b]: the raw level HAL_GPIO_ReadPin reads for button b
    btn,       \* btn[b]: the Button structure of b
    statics,   \* ignore_until, press_start_time, last_press_time of the handler
    last,      \* history: the call made by the last step, with the button before
               \* it (pre) and right after its internal update (mid)
    hist,      \* history: hist[b] the elapsed times of the last accepted
               \* transitions of b, oldest first (at most HistLen)
    oneShot,   \* history: oneShot[b][x] iff the latest call of accessor x on b
               \* returned 1 and no transition of b was accepted after its read
    seen,      \* history: seen[b] the _state the latest Button_Pressed(b) left
    dirty,     \* history: dirty[b] iff a transition of b was accepted after the
               \* latest Button_Pressed(b) read _has_changed
    reports,   \* history: reports[b] the Button_Pressed(b) calls that returned 1
               \* since the latest accepted press of b (counted up to 2)
    ref,       \* the reference run the two-button and wrapping specifications
               \* compare with: a button, its own statics, the last return value
    since,     \* history: the tick at which the pin of A last changed level
    answers,   \* history: per accepted release of A, oldest first, what the
               \* first Button_Double_Pressed(A) from that release on returned
               \* (Unanswered before that call; at most MaxAnswers)
    main,      \* the accessor call the main loop is in the middle of: its
               \* position, the accessor, and the locals of the call
    exti,      \* the EXTI line of A has an edge pending
    edges      \* history: the edges of the pin of A so far

vars == <<tick, pin, btn, statics, last, hist, oneShot, seen, dirty, reports, ref,
          since, answers, main, exti, edges>>

Accessors == {"pressed", "long", "double"}

LastNone ==
    [op |-> "none", b |-> "A", ret |-> 0, pre |-> Button_Init,
     mid |-> Button_Init, again |-> FALSE]

Unanswered == 2

\* The main loop between two accessor calls.
MainIdle ==
    [pc |-> "idle", op |-> "none", current_state |-> GPIO_PIN_SET,
     press_duration |-> 0, time_since_last_press |-> 0, changed |-> 0]

\* The specifications differ in where the tick starts, how long a run
\* lasts, and what the reference run is.
Start(mode) ==
    CASE mode = "wrap" -> TickMod - WrapLead
      [] mode \in {"triple", "pre"} -> DOUBLE_PRESS_WINDOW
      [] OTHER -> 0
Span(mode) ==
    CASE mode \in {"one", "flags"} -> OffsetsOne
      [] mode = "two"  -> OffsetsTwo
      [] mode = "wrap" -> OffsetsWrap
      [] mode = "poll" -> OffsetsPoll
      [] mode = "triple" -> OffsetsTriple
      [] mode = "pre" -> OffsetsPre
ElapsedAt(t, mode) == U32Sub(t, Start(mode))

\* The tick of the reference run of the wrapping specification: the same run
\* half the counter's range away, where it does not wrap.
RefTick(t, mode) == IF mode = "wrap" THEN U32Add(t, TickMod \div 2) ELSE t

InitMode(mode) ==
    /\ tick = Start(mode)
    /\ pin = [b \in Buttons |-> GPIO_PIN_SET]
    /\ btn = [b \in Buttons |-> Button_Init]
    /\ statics = StaticsInit
    /\ last = LastNone
    /\ hist = [b \in Buttons |-> <<>>]
    /\ oneShot = [b \in Buttons |-> [x \in Accessors |-> FALSE]]
    /\ seen = [b \in Buttons |-> GPIO_PIN_SET]
    /\ dirty = [b \in Buttons |-> FALSE]
    /\ reports = [b \in Buttons |-> 0]
    /\ ref = [bt |-> Button_Init, st |-> StaticsInit, ret |-> 0]
    /\ since = Start(mode)
    /\ answers = <<>>
    /\ main = MainIdle
    /\ exti = FALSE
    /\ edges = 0

(* ------------------------------------------------------------------ *)
(* The environment: time passes, a pin changes level.                   *)
(* ------------------------------------------------------------------ *)
\* In the polling specification a call is made at every instant: time passes
\* only after one.  In the preemption specification time passes between the
\* main loop's calls.
Tick(mode) ==
    /\ mode = "poll" => last.op # "none"
    /\ mode = "pre" => main.pc = "idle"
    /\ \E o \in Span(mode) :
          /\ o > ElapsedAt(tick, mode)
          /\ tick' = U32Add(Start(mode), o)
    /\ last' = LastNone
    /\ UNCHANGED <<pin, btn, statics, hist, oneShot, seen, dirty, reports, ref,
                   since, answers, main, exti, edges>>

\* The pin changes level; in the preemption specification the edge raises
\* the EXTI line (rising and falling edges both trigger).
PinChange(b, mode) ==
    /\ mode = "pre" => edges < MaxEdges
    /\ pin' = [pin EXCEPT ![b] = IF @ = GPIO_PIN_SET THEN GPIO_PIN_RESET
                                 ELSE GPIO_PIN_SET]
    /\ last' = LastNone
    /\ since' = IF mode = "poll" THEN tick ELSE since
    /\ exti' = IF mode = "pre" THEN TRUE ELSE exti
    /\ edges' = IF mode = "pre" THEN edges + 1 ELSE edges
    /\ UNCHANGED <<tick, btn, statics, hist, oneShot, seen, dirty, reports, ref,
                   answers, main>>

(* ------------------------------------------------------------------ *)
(* The program: one call of the handler or of an accessor on button b.  *)
(* ------------------------------------------------------------------ *)
Keep(s, n) == IF Len(s) > n THEN SubSeq(s, Len(s) - n + 1, Len(s)) ELSE s

\* What each specification records as history besides the call itself.
TracksHist(mode) == mode \in {"one", "wrap", "triple"}
TracksFlags(mode) == mode = "flags"
TracksCall(mode) == mode \in {"one", "flags", "poll"}
HistKept(mode) == IF mode = "triple" THEN 2 * MaxAnswers ELSE HistLen

\* The answers after a call: an accepted release opens an entry, and a
\* Button_Double_Pressed call answers the newest entry if it is still open.
Answered(old, accRelease, op, ret) ==
    LET base == IF accRelease THEN Keep(Append(old, Unanswered), MaxAnswers)
                ELSE old
        n == Len(base)
    IN  IF op = "double" /\ n > 0 /\ base[n] = Unanswered
        THEN [base EXCEPT ![n] = ret]
        ELSE base

Step(b, op, level2, mode) ==
    LET pre == btn[b]
        r   == Call(op, pre, statics, tick, pin[b], level2)
        acc == r.mid._state # pre._state
        accPress == acc /\ r.mid._state = GPIO_PIN_RESET
        accRelease == acc /\ r.mid._state = GPIO_PIN_SET
        one == r.ret = 1
        q   == Call(op, ref.bt, ref.st, RefTick(tick, mode), pin[b], level2)
    IN  /\ btn' = [btn EXCEPT ![b] = r.bt]
        /\ statics' = r.st
        /\ pin' = [pin EXCEPT ![b] = level2]
        /\ tick' = tick
        /\ last' = [op |-> op, b |-> b, ret |-> r.ret,
                    pre |-> IF TracksCall(mode) THEN pre ELSE Button_Init,
                    mid |-> IF TracksCall(mode) THEN r.mid ELSE Button_Init,
                    again |-> op \in Accessors /\ oneShot[b][op] /\ ~acc]
        /\ hist' = IF TracksHist(mode) /\ acc
                   THEN [hist EXCEPT ![b] = Keep(Append(@, ElapsedAt(tick, mode)),
                                                 HistKept(mode))]
                   ELSE hist
        /\ oneShot' = IF TracksFlags(mode)
                      THEN [oneShot EXCEPT ![b] =
                              [x \in Accessors |->
                                  IF x = op THEN one ELSE (~acc /\ @[x])]]
                      ELSE oneShot
        /\ seen' = IF TracksFlags(mode) /\ op = "pressed"
                   THEN [seen EXCEPT ![b] = r.mid._state]
                   ELSE seen
        /\ dirty' = IF TracksFlags(mode)
                    THEN [dirty EXCEPT ![b] = IF op = "pressed" THEN FALSE
                                              ELSE (@ \/ acc)]
                    ELSE dirty
        /\ reports' = IF TracksFlags(mode)
                      THEN [reports EXCEPT ![b] =
                              LET base == IF accPress THEN 0 ELSE @
                              IN  IF op = "pressed" /\ one
                                  THEN (IF base < 2 THEN base + 1 ELSE 2)
                                  ELSE base]
                      ELSE reports
        /\ ref' = IF mode = "wrap" \/ (mode = "two" /\ b = "B")
                  THEN [bt |-> q.bt, st |-> q.st, ret |-> q.ret]
                  ELSE ref
        /\ since' = IF mode = "poll" /\ level2 # pin[b] THEN tick ELSE since
        /\ answers' = IF mode = "triple"
                      THEN Answered(answers, accRelease, op, r.ret)
                      ELSE answers
        /\ UNCHANGED <<main, exti, edges>>

\* Button_IRQ_Handler(b) called directly (EXTI callback or polling).
IRQ(b, mode) == Step(b, "irq", pin[b], mode)

\* Button_Pressed(b); the pin may change between the update's read and
\* Button_Read's.
Pressed(b, mode) == \E level2 \in Levels : Step(b, "pressed", level2, mode)

LongPressed(b, mode) == Step(b, "long", pin[b], mode)

DoublePressed(b, mode) == Step(b, "double", pin[b], mode)

(* ------------------------------------------------------------------ *)
(* Specifications.                                                      *)
(* ------------------------------------------------------------------ *)
\* One button, a tick that starts at 0 and does not wrap.
Init == InitMode("one")
Next ==
    \/ Tick("one")
    \/ PinChange("A", "one")
    \/ IRQ("A", "one")
    \/ Pressed("A", "one")
    \/ LongPressed("A", "one")
    \/ DoublePressed("A", "one")
Spec == Init /\ [][Next]_vars

\* The same program, recording the history the one-shot flags are judged by.
InitFlags == InitMode("flags")
NextFlags ==
    \/ Tick("flags")
    \/ PinChange("A", "flags")
    \/ IRQ("A", "flags")
    \/ Pressed("A", "flags")
    \/ LongPressed("A", "flags")
    \/ DoublePressed("A", "flags")
SpecFlags == InitFlags /\ [][NextFlags]_vars

\* Two buttons sharing the handler; the reference run is button B alone.
InitTwo == InitMode("two")
NextTwo ==
    \/ Tick("two")
    \/ \E b \in Buttons : PinChange(b, "two")
    \/ \E b \in Buttons : IRQ(b, "two")
    \/ \E b \in Buttons : Pressed(b, "two")
    \/ \E b \in Buttons : LongPressed(b, "two")
    \/ \E b \in Buttons : DoublePressed(b, "two")
SpecTwo == InitTwo /\ [][NextTwo]_vars

\* One button, a tick that wraps through 0 during the run; the reference run
\* is the same run where the tick does not wrap.
InitWrap == InitMode("wrap")
NextWrap ==
    \/ Tick("wrap")
    \/ PinChange("A", "wrap")
    \/ IRQ("A", "wrap")
    \/ Pressed("A", "wrap")
    \/ LongPressed("A", "wrap")
    \/ DoublePressed("A", "wrap")
SpecWrap == InitWrap /\ [][NextWrap]_vars

\* One button, polled: a call is made at every instant before time moves on.
InitPoll == InitMode("poll")
NextPoll ==
    \/ Tick("poll")
    \/ PinChange("A", "poll")
    \/ IRQ("A", "poll")
    \/ Pressed("A", "poll")
    \/ LongPressed("A", "poll")
    \/ DoublePressed("A", "poll")
SpecPoll == InitPoll /\ [][NextPoll]_vars

\* One button, started DOUBLE_PRESS_WINDOW ticks after start-up, recording
\* what Button_Double_Pressed answers after each release.
InitTriple == InitMode("triple")
NextTriple ==
    \/ Tick("triple")
    \/ PinChange("A", "triple")
    \/ IRQ("A", "triple")
    \/ Pressed("A", "triple")
    \/ LongPressed("A", "triple")
    \/ DoublePressed("A", "triple")
SpecTriple == InitTriple /\ [][NextTriple]_vars

(* ------------------------------------------------------------------ *)
(* The program under preemption: the main loop runs an accessor on A    *)
(* statement by statement, and the EXTI interrupt runs the handler on A *)
(* to completion between any two of its statements.                     *)
(* ------------------------------------------------------------------ *)
A == btn["A"]
PreFrame == UNCHANGED <<tick, last, hist, oneShot, seen, dirty, reports, ref,
                        since, answers>>
MainAt(pc) == main.pc = pc
MainGoes(pc) == main' = [main EXCEPT !.pc = pc]
\* A statement of the main loop that only moves on or writes a local.
MainLocal == PreFrame /\ UNCHANGED <<pin, btn, statics, exti, edges>>
\* A statement of the main loop that writes the button or the statics.
MainWrite == PreFrame /\ UNCHANGED <<pin, exti, edges>>

\* HAL_GPIO_EXTI_Callback: the pending edge is served by Button_IRQ_Handler.
ISR ==
    /\ exti
    /\ LET r == Button_IRQ_Handler(A, statics, tick, pin["A"])
       IN  /\ btn' = [btn EXCEPT !["A"] = r.bt]
           /\ statics' = r.st
    /\ exti' = FALSE
    /\ PreFrame /\ UNCHANGED <<pin, main, edges>>

\* The main loop calls an accessor, which calls Button_IRQ_Handler.
MainCall(op) ==
    /\ MainAt("idle")
    /\ main' = [MainIdle EXCEPT !.pc = "window", !.op = op]
    /\ MainLocal

\* if (ignore_until > HAL_GetTick())
MainWindow ==
    /\ MainAt("window")
    /\ MainGoes(IF InWindow(statics, tick) THEN "flag" ELSE "read")
    /\ MainLocal

\* GPIO_PinState current_state = HAL_GPIO_ReadPin(...)
MainReadPin ==
    /\ MainAt("read")
    /\ main' = [main EXCEPT !.pc = "compare", !.current_state = pin["A"]]
    /\ MainLocal

\* if (current_state != button->_state)
MainCompare ==
    /\ MainAt("compare")
    /\ MainGoes(IF main.current_state # A._state THEN "state" ELSE "flag")
    /\ MainLocal

\* button->_state = current_state
MainSetState ==
    /\ MainAt("state")
    /\ btn' = [btn EXCEPT !["A"]._state = main.current_state]
    /\ MainGoes("changed")
    /\ MainWrite /\ UNCHANGED statics

\* button->_has_changed = 1
MainSetChanged ==
    /\ MainAt("changed")
    /\ btn' = [btn EXCEPT !["A"]._has_changed = 1]
    /\ MainGoes("until")
    /\ MainWrite /\ UNCHANGED statics

\* ignore_until = HAL_GetTick() + DEBOUNCE_DURATION; if (current_state == GPIO_PIN_SET)
MainSetWindow ==
    /\ MainAt("until")
    /\ statics' = [statics EXCEPT !.ignore_until = WindowEnd(tick)]
    /\ MainGoes(IF main.current_state = GPIO_PIN_SET THEN "duration" ELSE "start")
    /\ MainWrite /\ UNCHANGED btn

\* press_start_time = HAL_GetTick()
MainPressStart ==
    /\ MainAt("start")
    /\ statics' = [statics EXCEPT !.press_start_time = tick]
    /\ MainGoes("flag")
    /\ MainWrite /\ UNCHANGED btn

\* uint32_t press_duration = HAL_GetTick() - press_start_time
MainDuration ==
    /\ MainAt("duration")
    /\ main' = [main EXCEPT !.pc = "long",
                            !.press_duration = U32Sub(tick, statics.press_start_time)]
    /\ MainLocal

\* if (press_duration >= LONG_PRESS_DURATION) button->_long_press_event = 1
MainLong ==
    /\ MainAt("long")
    /\ IF IsLongPress(main.press_duration)
       THEN /\ btn' = [btn EXCEPT !["A"]._long_press_event = 1]
            /\ MainGoes("reset")
       ELSE /\ btn' = btn
            /\ MainGoes("short")
    /\ MainWrite /\ UNCHANGED statics

\* press_start_time = 0
MainReset ==
    /\ MainAt("reset")
    /\ statics' = [statics EXCEPT !.press_start_time = 0]
    /\ MainGoes("short")
    /\ MainWrite /\ UNCHANGED btn

\* if (press_duration < DOUBLE_PRESS_WINDOW)
MainShort ==
    /\ MainAt("short")
    /\ MainGoes(IF IsShortPress(main.press_duration) THEN "since" ELSE "flag")
    /\ MainLocal

\* uint32_t time_since_last_press = press_start_time - last_press_time
MainSince ==
    /\ MainAt("since")
    /\ main' = [main EXCEPT !.pc = "double",
                            !.time_since_last_press = TimeSinceLastPress(statics)]
    /\ MainLocal

\* if (time_since_last_press < DOUBLE_PRESS_WINDOW) button->_double_press_event = 1
MainDouble ==
    /\ MainAt("double")
    /\ btn' = IF IsDoublePress(main.time_since_last_press)
              THEN [btn EXCEPT !["A"]._double_press_event = 1]
              ELSE btn
    /\ MainGoes("record")
    /\ MainWrite /\ UNCHANGED statics

\* last_press_time = press_start_time
MainRecord ==
    /\ MainAt("record")
    /\ statics' = [statics EXCEPT !.last_press_time = statics.press_start_time]
    /\ MainGoes("flag")
    /\ MainWrite /\ UNCHANGED btn

\* The flag the accessor the main loop is in tests and clears.
FlagOf(op) ==
    CASE op = "pressed" -> A._has_changed
      [] op = "long" -> A._long_press_event
      [] op = "double" -> A._double_press_event

\* Back in the accessor: if (button->_flag); without the flag Button_Pressed
\* goes on to read the pin and the other two return 0.
MainFlag ==
    /\ MainAt("flag")
    /\ main' = IF FlagOf(main.op) = 1 THEN [main EXCEPT !.pc = "clear"]
               ELSE IF main.op = "pressed" THEN [main EXCEPT !.pc = "pin"]
               ELSE MainIdle
    /\ MainLocal

\* button->_flag = 0; return 1 (to Button_Pressed, from Button_Has_Changed)
MainClear ==
    /\ MainAt("clear")
    /\ btn' = [btn EXCEPT !["A"] =
                 CASE main.op = "pressed" -> [@ EXCEPT !._has_changed = 0]
                   [] main.op = "long" -> [@ EXCEPT !._long_press_event = 0]
                   [] main.op = "double" -> [@ EXCEPT !._double_press_event = 0]]
    /\ main' = IF main.op = "pressed" THEN [main EXCEPT !.pc = "pin", !.changed = 1]
               ELSE MainIdle
    /\ MainWrite /\ UNCHANGED statics

\* is_button_pressed = (Button_Read(button) == GPIO_PIN_RESET); return
MainPin ==
    /\ MainAt("pin")
    /\ main' = MainIdle
    /\ MainLocal

InitPre == InitMode("pre")
NextPre ==
    \/ Tick("pre")
    \/ PinChange("A", "pre")
    \/ ISR
    \/ \E op \in Accessors : MainCall(op)
    \/ MainWindow
    \/ MainReadPin
    \/ MainCompare
    \/ MainSetState
    \/ MainSetChanged
    \/ MainSetWindow
    \/ MainPressStart
    \/ MainDuration
    \/ MainLong
    \/ MainReset
    \/ MainShort
    \/ MainSince
    \/ MainDouble
    \/ MainRecord
    \/ MainFlag
    \/ MainClear
    \/ MainPin
SpecPre == InitPre /\ [][NextPre]_vars

(* ------------------------------------------------------------------ *)
(* What the claims are about, read off the history of button A.         *)
(* ------------------------------------------------------------------ *)
HA == hist["A"]
NA == Len(HA)
Called == last.op # "none" /\ last.b = "A"
\* The last step was a call whose internal update accepted a transition.
Accepted == Called /\ last.mid._state # last.pre._state
AcceptedPress == Accepted /\ last.mid._state = GPIO_PIN_RESET
AcceptedRelease == Accepted /\ last.mid._state = GPIO_PIN_SET
\* At an accepted release: the press it ends and the press before that one.
ThisPressStart == HA[NA - 1]
ThisPressEnd == HA[NA]
PrevPressStart == HA[NA - 3]
PrevPressEnd == HA[NA - 2]
TwoShortPresses ==
    /\ AcceptedRelease
    /\ NA >= 4
    /\ PrevPressEnd - PrevPressStart < DOUBLE_PRESS_WINDOW
    /\ ThisPressEnd - ThisPressStart < DOUBLE_PRESS_WINDOW
SetsDouble == last.mid._double_press_event = 1
LeavesDouble == last.mid._double_press_event = last.pre._double_press_event
SetsLong == last.mid._long_press_event = 1
LeavesLong == last.mid._long_press_event = last.pre._long_press_event

(* ------------------------------------------------------------------ *)
(* C1.  Debounce suppression.                                           *)
(* ------------------------------------------------------------------ *)
\* C1: with a tick that does not wrap, any two consecutive accepted settled
\* transitions of the button are at least DEBOUNCE_DURATION ticks apart: no
\* call made less than DEBOUNCE_DURATION ticks after an accepted transition
\* changes _state, whatever the pin reads.
C1_DebounceSuppression ==
    /\ \A i \in 2..NA : HA[i] - HA[i - 1] >= DEBOUNCE_DURATION
    /\ LET prior == IF Accepted THEN NA - 1 ELSE NA
       IN  (Called /\ prior >= 1 /\ tick < HA[prior] + DEBOUNCE_DURATION)
              => btn["A"]._state = last.pre._state

\* A call made on the last tick of the window, with the pin at the other
\* level, that left _state alone.
C1_Witness ==
    /\ Called /\ ~Accepted
    /\ NA >= 1
    /\ tick = HA[NA] + DEBOUNCE_DURATION - 1
    /\ pin["A"] # btn["A"]._state

(* ------------------------------------------------------------------ *)
(* C2.  Long-press boundary.                                            *)
(* ------------------------------------------------------------------ *)
\* C2: when a release is accepted at tick r for a press accepted at tick p,
\* the release sets _long_press_event if r - p >= LONG_PRESS_DURATION and
\* leaves it as it was if r - p < LONG_PRESS_DURATION.
C2_LongPressBoundary ==
    AcceptedRelease =>
        /\ ThisPressEnd - ThisPressStart >= LONG_PRESS_DURATION => SetsLong
        /\ ThisPressEnd - ThisPressStart < LONG_PRESS_DURATION => LeavesLong

\* A press held exactly LONG_PRESS_DURATION whose release set the flag.
C2_Witness ==
    /\ AcceptedRelease
    /\ ThisPressEnd - ThisPressStart = LONG_PRESS_DURATION
    /\ last.pre._long_press_event = 0
    /\ SetsLong

(* ------------------------------------------------------------------ *)
(* C3.  Double-press pairing.                                           *)
(* ------------------------------------------------------------------ *)
\* C3 as stated: of two consecutive accepted presses that each last less than
\* DOUBLE_PRESS_WINDOW, the second release sets _double_press_event if the
\* gap from the first release to the second press's start is less than
\* DOUBLE_PRESS_WINDOW, and does not set it if that gap is
\* DOUBLE_PRESS_WINDOW or more.
C3_PairingByGap ==
    TwoShortPresses =>
        /\ ThisPressStart - PrevPressEnd < DOUBLE_PRESS_WINDOW => SetsDouble
        /\ ThisPressStart - PrevPressEnd >= DOUBLE_PRESS_WINDOW => LeavesDouble

\* C3 as amended: the interval that decides is the one from the first press's
\* start to the second press's start.
C3_PairingByStart ==
    TwoShortPresses =>
        /\ ThisPressStart - PrevPressStart < DOUBLE_PRESS_WINDOW => SetsDouble
        /\ ThisPressStart - PrevPressStart >= DOUBLE_PRESS_WINDOW => LeavesDouble

\* Two short presses starting less than DOUBLE_PRESS_WINDOW apart, the second
\* release raising a flag that was down.
C3_Witness ==
    /\ TwoShortPresses
    /\ ThisPressStart - PrevPressStart < DOUBLE_PRESS_WINDOW
    /\ last.pre._double_press_event = 0
    /\ SetsDouble

(* ------------------------------------------------------------------ *)
(* C4.  One-shot flag law.                                              *)
(* ------------------------------------------------------------------ *)
\* C4: when the previous call of the same accessor returned 1 and no settled
\* transition was accepted after its read (this call's own update included),
\* this call returns 0: the pair of results is never (1, 1).
C4_OneShotLaw == (Called /\ last.again) => last.ret = 0

\* The second of two consecutive Button_Pressed calls, the first of which
\* returned 1, with the pin still at the pressed level.
C4_Witness ==
    /\ Called /\ last.again
    /\ last.op = "pressed"
    /\ pin["A"] = GPIO_PIN_RESET
    /\ last.ret = 0

(* ------------------------------------------------------------------ *)
(* C5.  What Button_Pressed returns.                                    *)
(* ------------------------------------------------------------------ *)
\* C5: Button_Pressed returns 1 if and only if, after its internal update,
\* _has_changed is set and the settled state _state is GPIO_PIN_RESET; in
\* every case it leaves _has_changed cleared.
C5_PressedReportsSettledPress ==
    (Called /\ last.op = "pressed") =>
        /\ last.ret = 1 <=> (/\ last.mid._has_changed = 1
                             /\ last.mid._state = GPIO_PIN_RESET)
        /\ btn["A"]._has_changed = 0

(* ------------------------------------------------------------------ *)
(* C6.  Each flagged event is reported exactly once.                    *)
(* ------------------------------------------------------------------ *)
\* C6: a Button_Pressed call that finds _has_changed raised by an accepted
\* transition to pressed (and so clears it) returns 1; at most one
\* Button_Pressed call returns 1 per accepted press; a Button_Long_Pressed or
\* Button_Double_Pressed call that clears its flag returns 1.
C6_ReportedExactlyOnce ==
    /\ (Called /\ last.op = "pressed" /\ last.mid._has_changed = 1
               /\ last.mid._state = GPIO_PIN_RESET) => last.ret = 1
    /\ reports["A"] <= 1
    /\ (Called /\ last.op = "long" /\ last.mid._long_press_event = 1
               /\ btn["A"]._long_press_event = 0) => last.ret = 1
    /\ (Called /\ last.op = "double" /\ last.mid._double_press_event = 1
               /\ btn["A"]._double_press_event = 0) => last.ret = 1

(* ------------------------------------------------------------------ *)
(* C7.  The classifier's flags are raised only at a release.            *)
(* ------------------------------------------------------------------ *)
\* C7: _long_press_event and _double_press_event go from 0 to 1 only inside
\* a call whose internal Button_IRQ_Handler accepts a pressed-to-released
\* transition; no other step raises either flag.
C7_FlagsRaisedOnlyAtRelease ==
    [][\A f \in {"_long_press_event", "_double_press_event"} :
          (btn["A"][f] = 0 /\ (last'.mid[f] = 1 \/ btn'["A"][f] = 1))
             => /\ last'.op # "none"
                /\ btn["A"]._state = GPIO_PIN_RESET
                /\ last'.mid._state = GPIO_PIN_SET]_vars

\* An accepted release that raised _double_press_event from 0.
C7_Witness ==
    /\ AcceptedRelease
    /\ last.pre._double_press_event = 0
    /\ last.mid._double_press_event = 1
    /\ last.op = "irq"

(* ------------------------------------------------------------------ *)
(* C8.  What _has_changed means.                                        *)
(* ------------------------------------------------------------------ *)
\* C8 as stated: _has_changed is 1 if and only if _state differs from the
\* settled level the most recent Button_Pressed call observed (the released
\* level if there was none).
C8_ChangedIffStateDiffers ==
    btn["A"]._has_changed = 1 <=> btn["A"]._state # seen["A"]

\* C8 as amended: _has_changed is 1 if and only if a settled transition was
\* accepted after the most recent Button_Pressed call read the flag (since
\* Button_Init if there was none); so it is 1 whenever _state differs from
\* the level that call observed, and it stays 1 when _state has come back.
C8_ChangedIffTransitionSince ==
    /\ btn["A"]._has_changed = 1 <=> dirty["A"]
    /\ btn["A"]._state # seen["A"] => btn["A"]._has_changed = 1

\* A press and its release accepted with no Button_Pressed call in between:
\* the flag is up and _state is back at the observed level.
C8_Witness ==
    /\ dirty["A"]
    /\ btn["A"]._has_changed = 1
    /\ btn["A"]._state = seen["A"]

(* ------------------------------------------------------------------ *)
(* C9.  Clock wraparound.                                               *)
(* ------------------------------------------------------------------ *)
\* C9: over a run shorter than half the counter's range, the button and the
\* accessor results are the same whether or not the tick wraps through 0
\* during the run (the reference run is the same run where it does not), and
\* the suppression window lasts DEBOUNCE_DURATION ticks also across the wrap:
\* accepted transitions stay at least DEBOUNCE_DURATION elapsed ticks apart.
C9_WrapTolerated ==
    /\ btn["A"] = ref.bt
    /\ (Called /\ last.op \in Accessors) => last.ret = ref.ret
    /\ \A i \in 2..NA : HA[i] - HA[i - 1] >= DEBOUNCE_DURATION

(* ------------------------------------------------------------------ *)
(* C10.  Independence of buttons.                                       *)
(* ------------------------------------------------------------------ *)
\* C10: button B's settled state, flags and accessor results are the same as
\* in the run where every operation on button A is removed (the reference
\* run).
C10_ButtonsIndependent ==
    /\ btn["B"] = ref.bt
    /\ (last.op \in Accessors /\ last.b = "B") => last.ret = ref.ret

(* ------------------------------------------------------------------ *)
(* C11.  Flags persist until their accessor consumes them.              *)
(* ------------------------------------------------------------------ *)
\* C11: a step that takes _long_press_event from 1 to 0 is a
\* Button_Long_Pressed call, one that takes _double_press_event from 1 to 0
\* is a Button_Double_Pressed call, and one that takes _has_changed from 1 to
\* 0 is a Button_Pressed call; no other call and no passing of time clears
\* a flag.
C11_ClearedOnlyByOwnAccessor ==
    [][/\ (btn["A"]._long_press_event = 1 /\ btn'["A"]._long_press_event = 0)
            => last'.op = "long"
       /\ (btn["A"]._double_press_event = 1 /\ btn'["A"]._double_press_event = 0)
            => last'.op = "double"
       /\ (btn["A"]._has_changed = 1 /\ btn'["A"]._has_changed = 0)
            => last'.op = "pressed"]_vars

\* A long-press flag still up after a Button_Double_Pressed call made later
\* than the release that raised it.
C11_Witness ==
    /\ Called /\ last.op = "double"
    /\ last.pre._long_press_event = 1
    /\ btn["A"]._long_press_event = 1
    /\ NA >= 1 /\ tick > HA[NA]

(* ------------------------------------------------------------------ *)
(* C12.  The two no-op cases of Button_IRQ_Handler.                     *)
(* ------------------------------------------------------------------ *)
\* C12: a call whose internal Button_IRQ_Handler finds the tick inside the
\* suppression window (ignore_until > tick), or reads a pin level equal to
\* _state, leaves _state, _has_changed, _long_press_event,
\* _double_press_event, ignore_until, press_start_time and last_press_time
\* as they were (the button right after the update is the button before it).
C12_NoOpCases ==
    [][(last'.op # "none"
          /\ (statics.ignore_until > tick \/ pin["A"] = btn["A"]._state))
         => (last'.mid = btn["A"] /\ statics' = statics)]_vars

\* A direct handler call inside the window, the pin at the other level, that
\* changed nothing.
C12_Witness ==
    /\ Called /\ last.op = "irq"
    /\ statics.ignore_until > tick
    /\ pin["A"] # btn["A"]._state
    /\ btn["A"] = last.pre

(* ------------------------------------------------------------------ *)
(* C13.  The acceptance rule.                                           *)
(* ------------------------------------------------------------------ *)
\* C13: a call at tick now outside the suppression window that reads a level
\* different from _state sets _state to that level, sets _has_changed and
\* sets ignore_until to now + DEBOUNCE_DURATION; a differing level read less
\* than DEBOUNCE_DURATION ticks after the latest accepted transition is
\* rejected, and one read DEBOUNCE_DURATION ticks or more after it is
\* accepted.
C13_AcceptanceRule ==
    [][(last'.op # "none" /\ pin["A"] # btn["A"]._state) =>
          /\ ~(statics.ignore_until > tick) =>
                /\ last'.mid._state = pin["A"]
                /\ last'.mid._has_changed = 1
                /\ statics'.ignore_until = tick + DEBOUNCE_DURATION
          /\ (NA >= 1 /\ tick - HA[NA] >= DEBOUNCE_DURATION) =>
                last'.mid._state = pin["A"]
          /\ (NA >= 1 /\ tick - HA[NA] < DEBOUNCE_DURATION) =>
                last'.mid = btn["A"]]_vars

\* A transition accepted exactly DEBOUNCE_DURATION ticks after the one
\* before it.
C13_Witness ==
    /\ Accepted
    /\ NA >= 2
    /\ HA[NA] - HA[NA - 1] = DEBOUNCE_DURATION
    /\ btn["A"]._has_changed = 1

(* ------------------------------------------------------------------ *)
(* C14.  The double-press side of the release classification.           *)
(* ------------------------------------------------------------------ *)
\* C14: at an accepted release with press_duration = now - press_start_time:
\* if press_duration < DOUBLE_PRESS_WINDOW, _double_press_event is set
\* exactly when press_start_time - last_press_time < DOUBLE_PRESS_WINDOW (it
\* is otherwise left as it was) and last_press_time becomes press_start_time
\* either way; if press_duration >= DOUBLE_PRESS_WINDOW the release leaves
\* both _double_press_event and last_press_time as they were.  So a release
\* that raises the flag after an earlier press ends a press shorter than
\* DOUBLE_PRESS_WINDOW and follows one shorter than DOUBLE_PRESS_WINDOW.
C14_DoubleSide ==
    [][/\ (AcceptedRelease' /\ NA' >= 4 /\ last'.pre._double_press_event = 0
                            /\ last'.mid._double_press_event = 1) =>
             /\ ThisPressEnd' - ThisPressStart' < DOUBLE_PRESS_WINDOW
             /\ PrevPressEnd' - PrevPressStart' < DOUBLE_PRESS_WINDOW
       /\ (last'.op # "none" /\ btn["A"]._state = GPIO_PIN_RESET
                          /\ last'.mid._state = GPIO_PIN_SET) =>
          LET press_duration == U32Sub(tick, statics.press_start_time)
              sinceLast == U32Sub(statics.press_start_time, statics.last_press_time)
              before == btn["A"]._double_press_event
              after == last'.mid._double_press_event
          IN  /\ press_duration < DOUBLE_PRESS_WINDOW =>
                    /\ sinceLast < DOUBLE_PRESS_WINDOW => after = 1
                    /\ sinceLast >= DOUBLE_PRESS_WINDOW => after = before
                    /\ statics'.last_press_time = statics.press_start_time
              /\ press_duration >= DOUBLE_PRESS_WINDOW =>
                    /\ after = before
                    /\ statics'.last_press_time = statics.last_press_time]_vars

\* The release of a press held exactly DOUBLE_PRESS_WINDOW, which left the
\* flag down and did not record the press.
C14_Witness ==
    /\ AcceptedRelease
    /\ ThisPressEnd - ThisPressStart = DOUBLE_PRESS_WINDOW
    /\ last.mid._double_press_event = 0
    /\ statics.last_press_time # ThisPressStart

(* ------------------------------------------------------------------ *)
(* C15.  Update idempotence.                                            *)
(* ------------------------------------------------------------------ *)
\* C15: a call made right after a Button_IRQ_Handler call, at the same tick
\* and with the pin at the same level, accepts no transition and changes no
\* flag and no timing variable in its internal update.
C15_UpdateIdempotent ==
    [][(last.op = "irq" /\ last.b = "A" /\ last'.op # "none")
         => (last'.mid = btn["A"] /\ statics' = statics)]_vars

\* An accessor re-running the update at the tick at which a direct handler
\* call accepted a transition.
C15_Witness ==
    /\ Called /\ last.op \in Accessors
    /\ ~Accepted
    /\ NA >= 1 /\ HA[NA] = tick
    /\ pin["A"] = btn["A"]._state

(* ------------------------------------------------------------------ *)
(* C17.  No double press without two presses.                           *)
(* ------------------------------------------------------------------ *)
\* C17: the release of the first press accepted since start-up does not set
\* _double_press_event, whatever the tick at which that press starts.
C17_FirstPressNotDouble ==
    (AcceptedRelease /\ NA = 2) => last.mid._double_press_event = 0

(* ------------------------------------------------------------------ *)
(* C16.  The settled state converges to the raw level.                  *)
(* ------------------------------------------------------------------ *)
\* C16: with a call made at every instant, once the pin has kept one level
\* for DEBOUNCE_DURATION ticks or more, a call leaves _state equal to that
\* level (so _state has the level no later than DEBOUNCE_DURATION ticks
\* after the pin's last change), and while the pin keeps the level _state
\* keeps it too.
C16_SettledStateConverges ==
    [][/\ (last'.op # "none" /\ tick' - since' >= DEBOUNCE_DURATION)
             => btn'["A"]._state = pin'["A"]
       /\ (btn["A"]._state = pin["A"] /\ pin'["A"] = pin["A"])
             => btn'["A"]._state = pin'["A"]]_vars

\* The level the pin took right after an accepted transition is accepted
\* exactly DEBOUNCE_DURATION ticks after the pin's last change, the window of
\* the earlier transition ending at that very tick.
C16_Witness ==
    /\ Accepted
    /\ tick - since = DEBOUNCE_DURATION
    /\ statics.ignore_until = tick + DEBOUNCE_DURATION
    /\ btn["A"]._state = pin["A"]

(* ------------------------------------------------------------------ *)
(* C19.  Three short presses in a row.                                  *)
(* ------------------------------------------------------------------ *)
\* The last three accepted presses of A are released, each lasted less than
\* DOUBLE_PRESS_WINDOW, each started less than DOUBLE_PRESS_WINDOW after the
\* one before, and Button_Double_Pressed has been called after each of the
\* three releases before the next one.
NR == Len(answers)
TriplePress ==
    /\ NA >= 6
    /\ btn["A"]._state = GPIO_PIN_SET
    /\ HA[NA] - HA[NA - 1] < DOUBLE_PRESS_WINDOW
    /\ HA[NA - 2] - HA[NA - 3] < DOUBLE_PRESS_WINDOW
    /\ HA[NA - 4] - HA[NA - 5] < DOUBLE_PRESS_WINDOW
    /\ HA[NA - 1] - HA[NA - 3] < DOUBLE_PRESS_WINDOW
    /\ HA[NA - 3] - HA[NA - 5] < DOUBLE_PRESS_WINDOW
    /\ NR >= 3
    /\ \A i \in (NR - 2)..NR : answers[i] # Unanswered

\* C19 as stated: of the three Button_Double_Pressed answers of a triple
\* press, at most one is 1.
C19_AtMostOnePair ==
    TriplePress => Cardinality({i \in (NR - 2)..NR : answers[i] = 1}) <= 1

\* C19: of the three Button_Double_Pressed answers of a triple press, the one
\* after the second release and the one after the third release are both 1:
\* the second press pairs with the first and the third with the second.
C19_EachPressPairsWithPrevious ==
    TriplePress => (answers[NR - 1] = 1 /\ answers[NR] = 1)

\* A triple press whose first release was answered 0.
C19_Witness ==
    /\ TriplePress
    /\ answers[NR - 2] = 0
    /\ answers[NR] = 1

(* ------------------------------------------------------------------ *)
(* C18.  Preemption of an accessor by the interrupt.                    *)
(* ------------------------------------------------------------------ *)
\* C18: with the handler preempting the main loop's accessor between any two
\* statements, a single short press (the pin has made at most one press edge
\* and one release edge, DOUBLE_PRESS_WINDOW ticks or more after start-up)
\* never sets _double_press_event.
C18_SinglePressNotDouble ==
    edges <= 2 => A._double_press_event = 0

====
